---- MODULE Spec2Model ----
(***************************************************************************)
(* Model of ProjectG5.py, the "Chi-Town Sentinel" Streamlit dashboard.     *)
(*                                                                         *)
(* One run of the script is a walk of pc through                           *)
(*   start -> loaded -> tab1 -> tab1_districts -> tab2 -> tab3             *)
(*         -> tab3_crosstab -> tab3_corr -> done                           *)
(* (or start -> except -> loaded -> done when the try block of load_data   *)
(* raises, or tab2 -> done when DataFrame.sample raises).  Each step ends  *)
(* at an st call, where Streamlit can leave the run for a new one.  A new  *)
(* run is started by moving the sidebar slider, once it has been drawn, or *)
(* by asking for a rerun; it executes the script from the top with fresh   *)
(* script variables; the st.cache_data store and the widget state survive. *)
(*                                                                         *)
(* A DataFrame is a sequence of rows, each row a record that carries its   *)
(* index label in the field "index".  A missing number (NaN) is the number *)
(* NaN below, which no column of the model uses as a value; it is only     *)
(* ever tested through Ge, Le, Lt and IsNaN, and every comparison with it  *)
(* is false, as in pandas.  A script variable holds Unset until the script *)
(* assigns it.                                                             *)
(***************************************************************************)
EXTENDS Integers, Sequences, FiniteSets, TLC

VARIABLES source, cache, slider, pc, df, year_filter, filtered_df,
          y_counts, d_counts, map_df, arrest_rate, ct_time,
          corr_matrix_data, corr, shown, bodyRuns, slider_drawn

vars == << source, cache, slider, pc, df, year_filter, filtered_df,
           y_counts, d_counts, map_df, arrest_rate, ct_time,
           corr_matrix_data, corr, shown, bodyRuns, slider_drawn >>

script_vars == << df, year_filter, filtered_df, y_counts, d_counts, map_df,
                  arrest_rate, ct_time, corr_matrix_data, corr >>

----------------------------------------------------------------------------
(* Bounds of the model.                                                    *)

MaxRows == 3

MaxTail == 1

MaxBodyRuns == 3

----------------------------------------------------------------------------
(* Constants of the program.                                               *)

SliderMin == 2015

SliderMax == 2025

TopDistricts == 15

SampleCap == 20000

HeadN == 10

NaN == -999999

IsNaN(x) == x = NaN

NaT == [year |-> NaN, month |-> NaN, day |-> NaN, hour |-> NaN, minute |-> NaN]

Unset == [kind |-> "unset"]

None == [kind |-> "none"]

DataFrame(rows) == [kind |-> "frame", rows |-> rows]

Value(v) == [kind |-> "value", value |-> v]

Raised(e) == [kind |-> "raised", error |-> e]

Miss == [kind |-> "miss"]

Entry(v, elements) == [kind |-> "entry", value |-> v, elements |-> elements]

EarlyMorning == "Early Morning (0-6)"

Morning == "Morning (6-12)"

Afternoon == "Afternoon (12-18)"

Night == "Night (18-24)"

----------------------------------------------------------------------------
(* Generic helpers.                                                        *)

Min(a, b) == IF a <= b THEN a ELSE b

Range(s) == { s[i] : i \in DOMAIN s }

RECURSIVE SumSeq(_)
SumSeq(s) == IF s = << >> THEN 0 ELSE Head(s) + SumSeq(Tail(s))

(* Comparisons of possibly missing numbers: false when either side is NaN. *)
Ge(x, y) == x # NaN /\ y # NaN /\ x >= y

Le(x, y) == x # NaN /\ y # NaN /\ x <= y

Lt(x, y) == x # NaN /\ y # NaN /\ x < y

----------------------------------------------------------------------------
(* pd.to_datetime(..., errors='coerce').  The text of a Date cell is       *)
(* a tuple <<Y, M, D, h, m>> standing for "Y-M-D h:m", or a tuple of some  *)
(* other length standing for text that is no timestamp (<< >> is an empty  *)
(* cell).  A tuple whose fields are out of range does not parse.           *)

IsLeap(y) == (y % 4 = 0 /\ y % 100 # 0) \/ y % 400 = 0

DaysInMonth(y, m) ==
    IF m = 2 THEN (IF IsLeap(y) THEN 29 ELSE 28)
    ELSE IF m \in {4, 6, 9, 11} THEN 30 ELSE 31

Parses(text) ==
    /\ Len(text) = 5
    /\ text[2] \in 1..12
    /\ text[3] \in 1..DaysInMonth(text[1], text[2])
    /\ text[4] \in 0..23
    /\ text[5] \in 0..59

to_datetime(text) ==
    IF Parses(text)
    THEN [year |-> text[1], month |-> text[2], day |-> text[3],
          hour |-> text[4], minute |-> text[5]]
    ELSE NaT

(* The .dt accessors: NaN on NaT.                                          *)
dt_year(d) == d.year

dt_month(d) == d.month

dt_hour(d) == d.hour

(* A variant of the bucket rule with the first bound closed on the right.  *)
time_period_closed(x) ==
    IF Le(0, x) /\ Le(x, 6) THEN EarlyMorning
    ELSE IF Le(6, x) /\ Lt(x, 12) THEN Morning
    ELSE IF Le(12, x) /\ Lt(x, 18) THEN Afternoon
    ELSE Night

(* The lambda applied to the Hour column.                                  *)
time_period(x) ==
    IF Le(0, x) /\ Lt(x, 6) THEN EarlyMorning
    ELSE IF Le(6, x) /\ Lt(x, 12) THEN Morning
    ELSE IF Le(12, x) /\ Lt(x, 18) THEN Afternoon
    ELSE Night

----------------------------------------------------------------------------
(* The source resource: a CSV table (its header and its rows) or a         *)
(* resource that cannot be fetched or parsed.                              *)

AllColumns == {"Date", "Primary Type", "District", "Community Area",
               "Latitude", "Longitude", "Arrest"}

Table(columns, rows) == [status |-> "ok", columns |-> columns, rows |-> rows]

Unreachable == [status |-> "unreachable"]

Malformed == [status |-> "malformed"]

RawRow(date, type, district, area, lat, lon, arrest) ==
    [Date |-> date, Primary_Type |-> type, District |-> district,
     Community_Area |-> area, Latitude |-> lat, Longitude |-> lon,
     Arrest |-> arrest]

RowPool ==
    { RawRow(<<2020, 1, 1, 2, 0>>, "THEFT", 1, 8, 41, -87, TRUE),
      RawRow(<<2020, 6, 15, 14, 0>>, "BATTERY", 2, 8, 42, -88, FALSE),
      RawRow(<< >>, "THEFT", 1, 8, 41, -87, TRUE),
      RawRow(<<2021, 3, 9, 2, 30>>, "THEFT", 2, 32, 41, -87, FALSE),
      RawRow(<<2021, 11, 30, 20, 15>>, "BATTERY", 1, 32, NaN, -87, TRUE),
      RawRow(<<2014, 2, 28, 9, 0>>, "ASSAULT", 3, 8, 42, NaN, FALSE) }

SmallTables == UNION { [1..n -> RowPool] : n \in 0..MaxRows }

(* One row per hour of the day, and one past the end of the day.           *)
HourTables ==
    { << RawRow(<<2020, 1, 1, h, 0>>, "THEFT", 1, 8, 41, -87, FALSE) >> :
        h \in 0..24 }

(* HeadN equal rows followed by a tail of equal rows.                      *)
LongTables ==
    { [i \in 1..n |-> IF i <= HeadN THEN a ELSE b] :
        a \in RowPool, b \in RowPool, n \in (HeadN + 1)..(HeadN + MaxTail) }

NoDateTable ==
    Table(AllColumns \ {"Date"},
          << [Primary_Type |-> "THEFT", District |-> 1,
              Community_Area |-> 8, Latitude |-> 41, Longitude |-> -87,
              Arrest |-> TRUE] >>)

Sources ==
    { Table(AllColumns, t) :
        t \in SmallTables \cup HourTables \cup LongTables }
    \cup {NoDateTable, Unreachable, Malformed}

----------------------------------------------------------------------------
(* load_data                                                               *)

(* pd.read_csv raises when the resource cannot be fetched or parsed.       *)
read_csv_raises(src) == src.status # "ok"

(* df['Date'] raises KeyError when the table has no Date column.           *)
derive_raises(src) == "Date" \notin src.columns

(* The try block raises: in read_csv, or else in the derivation.           *)
try_raises(src) == IF read_csv_raises(src) THEN TRUE ELSE derive_raises(src)

(* Lines 18-32: the frame read_csv builds (RangeIndex 0..n-1) with Date    *)
(* parsed and Year, Month, Hour, Time_Period added.                        *)
derive(src) ==
    [i \in 1..Len(src.rows) |->
        LET r == src.rows[i]
            d == to_datetime(r.Date)
        IN  [index |-> i - 1,
             Date |-> d,
             Primary_Type |-> r.Primary_Type,
             District |-> r.District,
             Community_Area |-> r.Community_Area,
             Latitude |-> r.Latitude,
             Longitude |-> r.Longitude,
             Arrest |-> r.Arrest,
             Year |-> dt_year(d),
             Month |-> dt_month(d),
             Hour |-> dt_hour(d),
             Time_Period |-> time_period(dt_hour(d))]]

(* A variant of the except branch that hands back an empty frame.          *)
on_exception_empty(src) == DataFrame(<< >>)

(* The except branch: the value load_data returns after st.error.          *)
on_exception(src) == None

(* A variant of the cache lookup that never finds the entry.               *)
cache_hit_never(c) == FALSE

(* st.cache_data: load_data takes no argument, so there is one entry.      *)
cache_hit(c) == c # Miss

----------------------------------------------------------------------------
(* The year filter, line 45.                                               *)

(* A variant of the mask with the upper bound exclusive.                   *)
in_range_open(year, yf) == Ge(year, yf[1]) /\ Lt(year, yf[2])

(* A variant of the mask written as "not outside", which lets NaN pass.    *)
in_range_not_outside(year, yf) == ~Lt(year, yf[1]) /\ ~Lt(yf[2], year)

(* (df['Year'] >= year_filter[0]) & (df['Year'] <= year_filter[1])         *)
in_range(year, yf) == Ge(year, yf[1]) /\ Le(year, yf[2])

(* df[mask]: the rows whose mask is true, in order, index labels kept.     *)
filter_rows(rows, yf) ==
    SelectSeq(rows, LAMBDA r : in_range(r.Year, yf))

----------------------------------------------------------------------------
(* Series helpers.                                                         *)

Remove(s, i) == SubSeq(s, 1, i - 1) \o SubSeq(s, i + 1, Len(s))

Count(col, v) == Cardinality({ i \in DOMAIN col : col[i] = v })

(* The distinct values of a numeric column in order of first occurrence,   *)
(* NaN dropped.                                                            *)
RECURSIVE UniqueAcc(_, _)
UniqueAcc(col, acc) ==
    IF col = << >> THEN acc
    ELSE IF IsNaN(Head(col)) \/ Head(col) \in Range(acc)
         THEN UniqueAcc(Tail(col), acc)
         ELSE UniqueAcc(Tail(col), Append(acc, Head(col)))

unique(col) == UniqueAcc(col, << >>)

(* Stable sort of <<key, count>> pairs by count, descending.               *)
RECURSIVE SortByCountDesc(_)
SortByCountDesc(s) ==
    IF s = << >> THEN << >>
    ELSE LET i == CHOOSE j \in DOMAIN s :
                    /\ \A k \in DOMAIN s : s[k][2] <= s[j][2]
                    /\ \A k \in 1..(j - 1) : s[k][2] < s[j][2]
         IN  << s[i] >> \o SortByCountDesc(Remove(s, i))

(* Series.value_counts(): counts per distinct value, most frequent first,  *)
(* equal counts in order of first occurrence.                              *)
value_counts(col) ==
    LET u == unique(col)
    IN  SortByCountDesc([i \in 1..Len(u) |-> << u[i], Count(col, u[i]) >>])

(* Series.sort_index(): ascending by key.                                  *)
RECURSIVE sort_index(_)
sort_index(s) ==
    IF s = << >> THEN << >>
    ELSE LET i == CHOOSE j \in DOMAIN s : \A k \in DOMAIN s : s[j][1] <= s[k][1]
         IN  << s[i] >> \o sort_index(Remove(s, i))

head(s, n) == SubSeq(s, 1, Min(n, Len(s)))

----------------------------------------------------------------------------
(* Tab 1, lines 56 and 60.                                                 *)

(* filtered_df['Year']                                                     *)
YearColumn(rows) == [i \in 1..Len(rows) |-> rows[i].Year]

(* filtered_df['District']                                                 *)
DistrictColumn(rows) == [i \in 1..Len(rows) |-> rows[i].District]

(* A variant of the yearly counts that keeps value_counts' own order.      *)
yearly_counts_unsorted(rows) ==
    LET vc == value_counts(YearColumn(rows))
    IN  [i \in 1..Len(vc) |-> [Year |-> vc[i][1], count |-> vc[i][2]]]

(* filtered_df['Year'].value_counts().sort_index().reset_index()           *)
yearly_counts(rows) ==
    LET vc == sort_index(value_counts(YearColumn(rows)))
    IN  [i \in 1..Len(vc) |-> [Year |-> vc[i][1], count |-> vc[i][2]]]

(* filtered_df['District'].value_counts().head(15).reset_index()           *)
district_counts(rows) ==
    LET vc == head(value_counts(DistrictColumn(rows)), TopDistricts)
    IN  [i \in 1..Len(vc) |-> [District |-> vc[i][1], count |-> vc[i][2]]]

----------------------------------------------------------------------------
(* Tab 2, line 67.                                                         *)

(* dropna(subset=['Latitude', 'Longitude'])                                *)
dropna_coords(rows) ==
    SelectSeq(rows, LAMBDA r : ~IsNaN(r.Latitude) /\ ~IsNaN(r.Longitude))

(* A variant of the sample size that ignores the size of the frame.        *)
sample_size_cap(rows) == SampleCap

(* min(20000, len(filtered_df))                                            *)
sample_size(rows) == Min(SampleCap, Len(rows))

(* DataFrame.sample(n) without replacement raises ValueError when n is     *)
(* larger than the population.                                             *)
sample_raises(population, n) == n > Len(population)

(* The possible outcomes of DataFrame.sample(n): every choice of n rows.   *)
(* The order in which the rows are drawn is not represented.               *)
samples(population, n) ==
    { { population[i] : i \in S } :
        S \in { T \in SUBSET DOMAIN population : Cardinality(T) = n } }

----------------------------------------------------------------------------
(* Tab 3, lines 79-92.                                                     *)

(* groupby sorts its keys; the four labels in that (lexicographic) order.  *)
PeriodOrder == << Afternoon, EarlyMorning, Morning, Night >>

TypeLabels(rows) == { r.Primary_Type : r \in Range(rows) }

PeriodLabels(rows) == { r.Time_Period : r \in Range(rows) }

ArrestCount(rows, p) ==
    Cardinality({ i \in DOMAIN rows : rows[i].Time_Period = p /\ rows[i].Arrest })

PeriodCount(rows, p) ==
    Cardinality({ i \in DOMAIN rows : rows[i].Time_Period = p })

(* groupby("Time_Period")["Arrest"].mean().reset_index() with the          *)
(* "Arrest %" column added.  A fraction a/n is the pair <<a, n>>.          *)
arrest_rate_by_period(rows) ==
    LET present == SelectSeq(PeriodOrder, LAMBDA p : p \in PeriodLabels(rows))
    IN  [i \in 1..Len(present) |->
            LET p == present[i]
            IN  [Time_Period |-> p,
                 Arrest |-> << ArrestCount(rows, p), PeriodCount(rows, p) >>,
                 Arrest_pct |-> << ArrestCount(rows, p) * 100,
                                   PeriodCount(rows, p) >>]]

(* pd.crosstab(filtered_df["Primary Type"].head(10),                       *)
(*             filtered_df["Time_Period"]): crosstab keeps the index       *)
(* labels common to its two arguments and counts the pairs on them.        *)
crosstab_head(rows) ==
    LET index_arg == head(rows, HeadN)
        common_idx == { r.index : r \in Range(index_arg) }
                        \cap { r.index : r \in Range(rows) }
        data == SelectSeq(rows, LAMBDA r : r.index \in common_idx)
    IN  [t \in TypeLabels(data) |->
            [p \in PeriodLabels(data) |->
                Cardinality({ i \in DOMAIN data :
                                /\ data[i].Primary_Type = t
                                /\ data[i].Time_Period = p })]]

(* groupby(["Community Area", "Hour", "Primary Type"]).size()              *)
(*     .unstack(fill_value=0): rows with a missing key are dropped.        *)
pivot_index(rows) ==
    { << r.Community_Area, r.Hour >> :
        r \in { q \in Range(rows) :
                  ~IsNaN(q.Community_Area) /\ ~IsNaN(q.Hour) } }

cooccurrence_pivot(rows) ==
    LET keyed == SelectSeq(rows, LAMBDA r :
                     ~IsNaN(r.Community_Area) /\ ~IsNaN(r.Hour))
    IN  [k \in pivot_index(rows) |->
            [t \in TypeLabels(keyed) |->
                Cardinality({ i \in DOMAIN keyed :
                                /\ keyed[i].Community_Area = k[1]
                                /\ keyed[i].Hour = k[2]
                                /\ keyed[i].Primary_Type = t })]]

RECURSIVE SumOver(_, _)
SumOver(S, f) ==
    IF S = {} THEN 0
    ELSE LET x == CHOOSE y \in S : TRUE
         IN  f[x] + SumOver(S \ {x}, f)

PivotColumns(pivot) == UNION { DOMAIN pivot[k] : k \in DOMAIN pivot }

(* DataFrame.corr(): Pearson's r between two columns x and y over the n    *)
(* rows of the pivot is cov / sqrt(varx * vary) with                       *)
(*   cov = n*Sxy - Sx*Sy, varx = n*Sxx - Sx*Sx, vary = n*Syy - Sy*Sy;      *)
(* the cell is the triple <<cov, varx, vary>> and r is NaN when            *)
(* varx * vary = 0.                                                        *)
pearson(pivot) ==
    LET K == DOMAIN pivot
        n == Cardinality(K)
        S1(t) == SumOver(K, [k \in K |-> pivot[k][t]])
        S2(t, u) == SumOver(K, [k \in K |-> pivot[k][t] * pivot[k][u]])
    IN  [t \in PivotColumns(pivot) |->
            [u \in PivotColumns(pivot) |->
                << n * S2(t, u) - S1(t) * S1(u),
                   n * S2(t, t) - S1(t) * S1(t),
                   n * S2(u, u) - S1(u) * S1(u) >>]]

----------------------------------------------------------------------------
(* The script.                                                             *)

SliderRanges ==
    { yf \in (SliderMin..SliderMax) \X (SliderMin..SliderMax) : yf[1] <= yf[2] }

(* The ranges the model lets the user pick.                                *)
RangeChoices ==
    { yf \in SliderRanges : yf[1] \in {2015, 2020, 2021} /\ yf[2] \in {2020, 2021, 2025} }

Init ==
    /\ source \in Sources
    /\ cache = Miss
    /\ slider = << SliderMin, SliderMax >>
    /\ slider_drawn = FALSE
    /\ pc = "start"
    /\ df = Unset
    /\ year_filter = Unset
    /\ filtered_df = Unset
    /\ y_counts = Unset
    /\ d_counts = Unset
    /\ map_df = Unset
    /\ arrest_rate = Unset
    /\ ct_time = Unset
    /\ corr_matrix_data = Unset
    /\ corr = Unset
    /\ shown = {}
    /\ bodyRuns = 0

(* Line 37, cache hit: the stored value is returned and the elements the   *)
(* body drew when it ran are drawn again; the body does not run.           *)
load_data_cached ==
    /\ pc = "start"
    /\ cache_hit(cache)
    /\ df' = cache.value
    /\ shown' = shown \cup cache.elements
    /\ pc' = "loaded"
    /\ UNCHANGED << source, cache, slider, slider_drawn, year_filter,
                    filtered_df, y_counts, d_counts, map_df, arrest_rate,
                    ct_time, corr_matrix_data, corr, bodyRuns >>

(* Line 37, cache miss, try branch: lines 18-32.  The branch makes no st   *)
(* call, so the body returns and its value is stored in one step.          *)
load_data_ok ==
    /\ pc = "start"
    /\ ~cache_hit(cache)
    /\ ~try_raises(source)
    /\ df' = DataFrame(derive(source))
    /\ cache' = Entry(df', {})
    /\ bodyRuns' = bodyRuns + 1
    /\ pc' = "loaded"
    /\ UNCHANGED << source, slider, slider_drawn, year_filter, filtered_df,
                    y_counts, d_counts, map_df, arrest_rate, ct_time,
                    corr_matrix_data, corr, shown >>

(* Line 37, cache miss, the try block raises: the body has run and         *)
(* control is at st.error, line 34, with nothing returned or stored yet.   *)
load_data_raises ==
    /\ pc = "start"
    /\ ~cache_hit(cache)
    /\ try_raises(source)
    /\ bodyRuns' = bodyRuns + 1
    /\ pc' = "except"
    /\ UNCHANGED << source, cache, slider, slider_drawn, script_vars, shown >>

(* Lines 34-35: st.error draws the message, load_data returns None and     *)
(* st.cache_data stores the value with the element drawn.                  *)
load_data_except ==
    /\ pc = "except"
    /\ df' = on_exception(source)
    /\ shown' = shown \cup {"error"}
    /\ cache' = Entry(df', {"error"})
    /\ pc' = "loaded"
    /\ UNCHANGED << source, slider, slider_drawn, year_filter, filtered_df,
                    y_counts, d_counts, map_df, arrest_rate, ct_time,
                    corr_matrix_data, corr, bodyRuns >>

(* Lines 39-45: the sidebar, which draws the slider, and the filter.       *)
filter ==
    /\ pc = "loaded"
    /\ df # None
    /\ slider_drawn' = TRUE
    /\ year_filter' = slider
    /\ filtered_df' = DataFrame(filter_rows(df.rows, slider))
    /\ pc' = "tab1"
    /\ UNCHANGED << source, cache, slider, df, y_counts, d_counts, map_df,
                    arrest_rate, ct_time, corr_matrix_data, corr, shown,
                    bodyRuns >>

(* Lines 94-95: the else branch.  The run ends without a slider on the     *)
(* page.                                                                   *)
warn ==
    /\ pc = "loaded"
    /\ df = None
    /\ shown' = shown \cup {"warning"}
    /\ slider_drawn' = FALSE
    /\ pc' = "done"
    /\ UNCHANGED << source, cache, slider, script_vars, bodyRuns >>

(* Lines 51-57.                                                            *)
tab1_years ==
    /\ pc = "tab1"
    /\ y_counts' = Value(yearly_counts(filtered_df.rows))
    /\ pc' = "tab1_districts"
    /\ UNCHANGED << source, cache, slider, slider_drawn, df, year_filter,
                    filtered_df, d_counts, map_df, arrest_rate, ct_time,
                    corr_matrix_data, corr, shown, bodyRuns >>

(* Lines 58-61.                                                            *)
tab1_districts ==
    /\ pc = "tab1_districts"
    /\ d_counts' = Value(district_counts(filtered_df.rows))
    /\ pc' = "tab2"
    /\ UNCHANGED << source, cache, slider, slider_drawn, df, year_filter,
                    filtered_df, y_counts, map_df, arrest_rate, ct_time,
                    corr_matrix_data, corr, shown, bodyRuns >>

(* Lines 64-70, sample succeeds.                                           *)
tab2 ==
    /\ pc = "tab2"
    /\ LET population == dropna_coords(filtered_df.rows)
           n == sample_size(filtered_df.rows)
       IN  /\ ~sample_raises(population, n)
           /\ \E s \in samples(population, n) : map_df' = Value(s)
    /\ pc' = "tab3"
    /\ UNCHANGED << source, cache, slider, slider_drawn, df, year_filter,
                    filtered_df, y_counts, d_counts, arrest_rate, ct_time,
                    corr_matrix_data, corr, shown, bodyRuns >>

(* Line 67, sample raises: the exception is not caught, Streamlit shows it *)
(* and the run ends.                                                       *)
tab2_raises ==
    /\ pc = "tab2"
    /\ LET population == dropna_coords(filtered_df.rows)
           n == sample_size(filtered_df.rows)
       IN  sample_raises(population, n)
    /\ map_df' = Raised("ValueError")
    /\ shown' = shown \cup {"exception"}
    /\ pc' = "done"
    /\ UNCHANGED << source, cache, slider, slider_drawn, df, year_filter,
                    filtered_df, y_counts, d_counts, arrest_rate, ct_time,
                    corr_matrix_data, corr, bodyRuns >>

(* Lines 73-81.                                                            *)
tab3_arrest ==
    /\ pc = "tab3"
    /\ arrest_rate' = Value(arrest_rate_by_period(filtered_df.rows))
    /\ pc' = "tab3_crosstab"
    /\ UNCHANGED << source, cache, slider, slider_drawn, df, year_filter,
                    filtered_df, y_counts, d_counts, map_df, ct_time,
                    corr_matrix_data, corr, shown, bodyRuns >>

(* Lines 83-86.                                                            *)
tab3_crosstab ==
    /\ pc = "tab3_crosstab"
    /\ ct_time' = Value(crosstab_head(filtered_df.rows))
    /\ pc' = "tab3_corr"
    /\ UNCHANGED << source, cache, slider, slider_drawn, df, year_filter,
                    filtered_df, y_counts, d_counts, map_df, arrest_rate,
                    corr_matrix_data, corr, shown, bodyRuns >>

(* Lines 89-92.                                                            *)
tab3_corr ==
    /\ pc = "tab3_corr"
    /\ corr_matrix_data' = Value(cooccurrence_pivot(filtered_df.rows))
    /\ corr' = Value(pearson(cooccurrence_pivot(filtered_df.rows)))
    /\ pc' = "done"
    /\ UNCHANGED << source, cache, slider, slider_drawn, df, year_filter,
                    filtered_df, y_counts, d_counts, map_df, arrest_rate,
                    ct_time, shown, bodyRuns >>

(* A new run starts: the script variables and the elements of the run in   *)
(* progress are dropped.  A run in progress is left at the st call it has  *)
(* reached, which is where each step of the model ends.                    *)
restart ==
    /\ pc' = "start"
    /\ df' = Unset
    /\ year_filter' = Unset
    /\ filtered_df' = Unset
    /\ y_counts' = Unset
    /\ d_counts' = Unset
    /\ map_df' = Unset
    /\ arrest_rate' = Unset
    /\ ct_time' = Unset
    /\ corr_matrix_data' = Unset
    /\ corr' = Unset
    /\ shown' = {}
    /\ UNCHANGED << source, cache, bodyRuns, slider_drawn >>

(* The user moves the slider (line 43), which is possible once a run has   *)
(* drawn it: Streamlit stores the new value and runs the script again.     *)
rerun_slider ==
    /\ slider_drawn
    /\ bodyRuns < MaxBodyRuns
    /\ \E yf \in RangeChoices : slider' = yf
    /\ restart

(* The user asks for a rerun from the app menu or with the key R, at any   *)
(* time; the widget state is untouched.                                    *)
rerun_manual ==
    /\ bodyRuns < MaxBodyRuns
    /\ slider' = slider
    /\ restart

SliderNext ==
    \/ load_data_cached
    \/ load_data_ok
    \/ load_data_raises
    \/ load_data_except
    \/ filter
    \/ warn
    \/ tab1_years
    \/ tab1_districts
    \/ tab2
    \/ tab2_raises
    \/ tab3_arrest
    \/ tab3_crosstab
    \/ tab3_corr
    \/ rerun_slider

Next ==
    \/ SliderNext
    \/ rerun_manual

(* The session with reruns from the slider only.                           *)
SliderSpec == Init /\ [][SliderNext]_vars

Spec == Init /\ [][Next]_vars

----------------------------------------------------------------------------
(* Properties.                                                             *)

Labels == { EarlyMorning, Morning, Afternoon, Night }

AfterTab1 == { "tab2", "tab3", "tab3_crosstab", "tab3_corr", "done" }

AfterTab2 == { "tab3", "tab3_crosstab", "tab3_corr", "done" }

(* C1: every record of the loaded table whose Hour is undefined has an     *)
(* undefined Time_Period, that is, none of the four bucket labels.         *)
C1_UndefinedHourUndefinedPeriod ==
    df.kind = "frame" =>
        \A i \in DOMAIN df.rows :
            df.rows[i].Hour = NaN => df.rows[i].Time_Period \notin Labels

(* C2: every record of the loaded table whose Hour is an integer h of      *)
(* 0..23 has exactly the bucket of the fixed rule: h < 6 Early Morning,    *)
(* 6 <= h < 12 Morning, 12 <= h < 18 Afternoon, 18 <= h Night.             *)
C2_BucketsPartitionDay ==
    df.kind = "frame" =>
        \A i \in DOMAIN df.rows :
            LET h == df.rows[i].Hour
                p == df.rows[i].Time_Period
            IN  h \in 0..23 =>
                    /\ p \in Labels
                    /\ (p = EarlyMorning) <=> (h \in 0..5)
                    /\ (p = Morning) <=> (h \in 6..11)
                    /\ (p = Afternoon) <=> (h \in 12..17)
                    /\ (p = Night) <=> (h \in 18..23)

C2_Witness ==
    /\ df.kind = "frame"
    /\ \E i \in DOMAIN df.rows :
          df.rows[i].Hour = 6 /\ df.rows[i].Time_Period = Morning

(* C3: the crosstab has one row for each of the 10 most frequent types of  *)
(* the filtered set (all types when there are at most 10), and each cell   *)
(* counts every record of the filtered set with that type and period.      *)
C3_CrosstabTopTenByFrequency ==
    ct_time.kind = "value" =>
        LET f == filtered_df.rows
            ct == ct_time.value
            types == { f[i].Primary_Type : i \in DOMAIN f }
            freq(t) == Cardinality({ i \in DOMAIN f : f[i].Primary_Type = t })
            cell(t, p) == Cardinality({ i \in DOMAIN f :
                              f[i].Primary_Type = t /\ f[i].Time_Period = p })
        IN  /\ DOMAIN ct \subseteq types
            /\ Cardinality(DOMAIN ct) = Min(10, Cardinality(types))
            /\ \A t \in DOMAIN ct : \A u \in types \ DOMAIN ct :
                   freq(t) >= freq(u)
            /\ \A t \in DOMAIN ct : \A p \in Labels :
                   IF cell(t, p) > 0
                   THEN p \in DOMAIN ct[t] /\ ct[t][p] = cell(t, p)
                   ELSE p \in DOMAIN ct[t] => ct[t][p] = 0

(* C4: once the geo-sample step is over, the sample exists (no error), has *)
(* only rows with both coordinates, is all of them when there are at most  *)
(* 20000, and has exactly 20000 rows otherwise.                            *)
C4_GeoSampleCompletes ==
    (pc \in AfterTab2 /\ filtered_df.kind = "frame") =>
        LET f == filtered_df.rows
            located == { f[i] : i \in { j \in DOMAIN f :
                            f[j].Latitude # NaN /\ f[j].Longitude # NaN } }
        IN  /\ map_df.kind = "value"
            /\ map_df.value \subseteq located
            /\ Cardinality(located) <= 20000 => map_df.value = located
            /\ Cardinality(located) > 20000 => Cardinality(map_df.value) = 20000

(* C5: when the source cannot be fetched or parsed, no run ever holds a    *)
(* table, neither the filter nor any aggregator runs, and once load_data   *)
(* has returned its value is None and the error is shown.                  *)
C5_LoadFailureHalts ==
    (source.status # "ok" \/ "Date" \notin source.columns) =>
        /\ df \in { Unset, None }
        /\ pc \in { "loaded", "done" } => (df = None /\ "error" \in shown)
        /\ pc \in { "start", "except", "loaded", "done" }
        /\ filtered_df = Unset
        /\ y_counts = Unset
        /\ d_counts = Unset
        /\ map_df = Unset
        /\ arrest_rate = Unset
        /\ ct_time = Unset
        /\ corr_matrix_data = Unset
        /\ corr = Unset

C5_Witness ==
    /\ pc = "done"
    /\ source.status = "unreachable"
    /\ df = None
    /\ shown = {"error", "warning"}

(* C6: however many times the slider makes the script run again, the body  *)
(* of load_data has run at most once in the session, and the table a run   *)
(* works on is the cached one.                                             *)
C6_LoadBodyRunsOnce ==
    /\ bodyRuns <= 1
    /\ df # Unset => (cache.kind = "entry" /\ df = cache.value /\ bodyRuns = 1)

C6_Witness ==
    /\ pc = "done"
    /\ corr.kind = "value"
    /\ slider = << 2020, 2021 >>
    /\ year_filter = slider
    /\ bodyRuns = 1

(* C7: the filtered set is exactly the rows of the loaded table whose Year *)
(* is defined and lies in [minYear, maxYear], both ends included, in the   *)
(* original row order; the loaded table is the one load_data produced.     *)
C7_FilterExact ==
    filtered_df.kind = "frame" =>
        LET f == filtered_df.rows
            d == df.rows
            lo == year_filter[1]
            hi == year_filter[2]
        IN  /\ lo <= hi
            /\ \A i \in DOMAIN f : f[i] = d[f[i].index + 1]
            /\ \A i \in DOMAIN f : \A j \in DOMAIN f :
                   i < j => f[i].index < f[j].index
            /\ { f[i].index : i \in DOMAIN f }
                 = { d[i].index : i \in { j \in DOMAIN d :
                        d[j].Year # NaN /\ lo <= d[j].Year /\ d[j].Year <= hi } }
            /\ df = cache.value

C7_Witness ==
    /\ filtered_df.kind = "frame"
    /\ Len(filtered_df.rows) = 1
    /\ filtered_df.rows[1].Year = year_filter[2]
    /\ \E i \in DOMAIN df.rows : df.rows[i].Year = NaN
    /\ \E i \in DOMAIN df.rows :
          df.rows[i].Year # NaN /\ df.rows[i].Year > year_filter[2]

(* C8: when the filtered set is empty, every aggregator that has run has   *)
(* returned an empty result and none has raised.                           *)
C8_EmptyFilteredSet ==
    (filtered_df.kind = "frame" /\ filtered_df.rows = << >>) =>
        /\ pc \in AfterTab1 =>
              /\ y_counts.kind = "value" /\ y_counts.value = << >>
              /\ d_counts.kind = "value" /\ d_counts.value = << >>
        /\ pc \in AfterTab2 =>
              map_df.kind = "value" /\ map_df.value = {}
        /\ pc = "done" =>
              /\ arrest_rate.kind = "value" /\ arrest_rate.value = << >>
              /\ ct_time.kind = "value" /\ DOMAIN ct_time.value = {}
              /\ corr_matrix_data.kind = "value"
              /\ DOMAIN corr_matrix_data.value = {}
              /\ corr.kind = "value" /\ DOMAIN corr.value = {}

C8_Witness ==
    /\ pc = "done"
    /\ filtered_df.kind = "frame"
    /\ filtered_df.rows = << >>
    /\ df.rows # << >>
    /\ corr.kind = "value"

Scenario ==
    << RawRow(<<2020, 1, 1, 2, 0>>, "THEFT", 1, 8, 41, -87, TRUE),
       RawRow(<<2020, 6, 15, 14, 0>>, "BATTERY", 2, 8, 42, -88, FALSE),
       RawRow(<< >>, "THEFT", 1, 8, 41, -87, TRUE) >>

(* C9: the arrest rate has one entry per Time_Period of the filtered       *)
(* records, equal to 100 * arrests / records of that period, within        *)
(* [0, 100]; only records with a parsable Date in the year range count;    *)
(* the three-row scenario yields Early Morning 100 and Afternoon 0 only.   *)
C9_ArrestRateByPeriod ==
    arrest_rate.kind = "value" =>
        LET f == filtered_df.rows
            d == df.rows
            ar == arrest_rate.value
            dated == { i \in DOMAIN d :
                         /\ d[i].Date # NaT
                         /\ year_filter[1] <= d[i].Date.year
                         /\ d[i].Date.year <= year_filter[2] }
            all(p) == Cardinality({ i \in dated : d[i].Time_Period = p })
            arrests(p) == Cardinality({ i \in dated :
                              d[i].Time_Period = p /\ d[i].Arrest })
        IN  /\ { ar[i].Time_Period : i \in DOMAIN ar }
                 = { f[i].Time_Period : i \in DOMAIN f }
            /\ Cardinality({ ar[i].Time_Period : i \in DOMAIN ar }) = Len(ar)
            /\ \A i \in DOMAIN ar :
                  /\ ar[i].Arrest_pct[2] = all(ar[i].Time_Period)
                  /\ ar[i].Arrest_pct[1] = 100 * arrests(ar[i].Time_Period)
                  /\ ar[i].Arrest_pct[2] > 0
                  /\ 0 <= ar[i].Arrest_pct[1]
                  /\ ar[i].Arrest_pct[1] <= 100 * ar[i].Arrest_pct[2]
            /\ (source.rows = Scenario /\ year_filter[1] <= 2020
                                       /\ 2020 <= year_filter[2]) =>
                  /\ Len(ar) = 2
                  /\ ar[1].Time_Period = Afternoon
                  /\ ar[1].Arrest_pct = << 0, 1 >>
                  /\ ar[2].Time_Period = EarlyMorning
                  /\ ar[2].Arrest_pct = << 100, 1 >>

C9_Witness ==
    /\ arrest_rate.kind = "value"
    /\ source.rows = Scenario
    /\ year_filter = << 2020, 2021 >>

(* C10: the yearly counts are in strictly ascending Year order, one pair   *)
(* per distinct Year of the filtered set, and sum to its number of rows.   *)
C10_YearlyCounts ==
    y_counts.kind = "value" =>
        LET f == filtered_df.rows
            yc == y_counts.value
        IN  /\ \A i \in DOMAIN yc : \A j \in DOMAIN yc :
                   i < j => yc[i].Year < yc[j].Year
            /\ { yc[i].Year : i \in DOMAIN yc } = { f[i].Year : i \in DOMAIN f }
            /\ \A i \in DOMAIN yc :
                   yc[i].count
                     = Cardinality({ j \in DOMAIN f : f[j].Year = yc[i].Year })
            /\ SumSeq([i \in DOMAIN yc |-> yc[i].count]) = Len(f)

C10_Witness ==
    /\ y_counts.kind = "value"
    /\ Len(y_counts.value) = 2
    /\ Len(filtered_df.rows) = 3
    /\ filtered_df.rows[1].Year > filtered_df.rows[3].Year

====
